---- MODULE Spec2Model ----
(***************************************************************************)
(* Model of the audio capture session (hook useAudioRecorder), the         *)
(* analysis tap of AudioVisualizer and the upload file set (hook           *)
(* useFileUpload) of the SentimentAnalysis frontend.                       *)
(*                                                                         *)
(* The browser runs one event at a time: a user action, a resolved         *)
(* getUserMedia promise with the continuations awaiting it, an interval    *)
(* callback or a recorder event.  Each action below is one such event,     *)
(* followed by the render React schedules for the state it set and the     *)
(* effects of that render (state updates of one event are batched).        *)
(* A handler invoked by the user is the one of the latest render, so the   *)
(* state it closes over is the current state; a callback created earlier   *)
(* keeps the state of the render that created it.                          *)
(*                                                                         *)
(* Time is counted in ticks of 0.1 s: recordingTime = 30 is 3.0 s.         *)
(***************************************************************************)
EXTENDS Integers, Sequences, FiniteSets, Bags

\* ---------------------------------------------------------------- bounds
MaxAcquire == 2     \* microphone acquisitions granted to the recorder
MaxPending == 2     \* startRecording calls awaiting getUserMedia at once
MaxChunks  == 1     \* chunks held in chunksRef at once
MaxBatch   == 2     \* files passed to one addFiles
MaxFiles   == 3     \* files passed to addFiles in all
MaxPageAcquire == 1 \* microphone acquisitions of the recorder on the audio page
MaxTaps    == 2     \* initAudio calls of the visualizers of the audio page
MaxInFlight == 2    \* handlers of the multi-modal page suspended at once
MaxCamAcquire == 2  \* startCamera calls that are pending or were granted

\* ------------------------------------------------------- program constants
Deadline     == 30  \* newTime >= 3.0, in ticks of 0.1 s
TickInterval == 1   \* prev + 0.1

VARIABLES
    isRecording,      \* useState(false)
    recordingTime,    \* useState(0), in ticks
    audioBlob,        \* useState(null): [present, data]
    audioUrl,         \* useState(null): 0 is null, r the URL made by recorder r
    isPlaying,        \* useState(false)
    error,            \* useState(null): "" is null
    mediaRecorderRef, \* useRef(null): 0 is null, else a recorder id
    timerRef,         \* useRef(null): 0 is null, else an interval id
    chunksRef,        \* useRef([]): sequence of chunks, each the id of its recorder
    recorders,        \* the MediaRecorder objects created so far, by id
    timers,           \* the intervals that are set and not cleared
    revoked,          \* the bag of sample URLs passed to URL.revokeObjectURL
    pendingStarts,    \* startRecording calls suspended at await initializeRecorder()
    audioContext,     \* AudioVisualizer useState(null): TRUE once set
    visPending,       \* initAudio calls suspended at await getUserMedia
    visStreams,       \* streams opened by initAudio (their tracks are live)
    visStale,         \* initAudio calls of unmounted visualizers awaiting getUserMedia
    animationRef,     \* AudioVisualizer useRef(null): 0 is null, else a frame id
    frames,           \* animation frames requested and neither run nor cancelled
    mounted,          \* the page that calls useAudioRecorder is mounted
    selectedSource,   \* AudioAnalysis useState('recording')
    playerEl,         \* audioPlayerRef.current: TRUE when the <audio> element is rendered
    elPlaying,        \* the rendered <audio> element is playing (not paused)
    listenOn,         \* the element that carries handleEnded and handlePause
    pauseQueued,      \* elements with a pause event queued, see PlayerRender
    isAnalyzing,      \* AudioAnalysis useState(false)
    analysisResult,   \* AudioAnalysis useState(null)
    requests,         \* emotionAPI.analyzeAudio calls awaiting the server
    toast,            \* the last toast handleAnalyze raised
    lastUserOp,       \* the last operation the user invoked on the hook
    accept,           \* useFileUpload({ accept })
    maxSize,          \* useFileUpload({ maxSize })
    allowMultiple,    \* useFileUpload({ allowMultiple })
    files,            \* useState([]): the active file set
    uploadMounted,    \* the component that calls useFileUpload is mounted
    previewRevokes,   \* previewRevokes[u]: revokeObjectURL calls on preview URL u
    fileCount,        \* File objects passed to addFiles so far
    lastBatch,        \* the files of the last addFiles call
    lastErrors,       \* the error toasts of the last addFiles call
    mmIsAnalyzing,    \* MultiModal useState(false): isAnalyzing
    audioAnalysis,    \* MultiModal useState(null): TRUE when set
    imageAnalysis,    \* MultiModal useState(null): TRUE when set
    imageFiles,       \* MultiModal: files.length of the image upload hook
    inFlight,         \* MultiModal: handlers suspended at their await, by kind
    imgIsAnalyzing,   \* ImageAnalysis useState(false): isAnalyzing
    analysisResults,  \* ImageAnalysis useState({}): index -> name of the image analysed
    imgPending,       \* ImageAnalysis: the handler suspended at its await
    imgSelectedSource, \* ImageAnalysis useState('upload'): selectedSource
    isCapturing,      \* ImageAnalysis useState(false)
    camStream,        \* CameraCapture useState(null): stream, 0 is null
    camError,         \* CameraCapture useState(null): error, TRUE when set
    camPending,       \* startCamera calls suspended at await getUserMedia
    camStale,         \* startCamera calls of unmounted CameraCaptures, suspended
    camOpened,        \* camera streams opened so far, numbered from 1
    camLive           \* the camera streams whose tracks are live

recVars == <<isRecording, recordingTime, audioBlob, audioUrl, isPlaying, error,
             mediaRecorderRef, timerRef, chunksRef, recorders, timers, revoked,
             pendingStarts>>
visVars == <<audioContext, visPending, visStreams, visStale, animationRef, frames>>
playVars == <<playerEl, elPlaying, listenOn, pauseQueued>>
pageVars == <<mounted, selectedSource, isAnalyzing, analysisResult, requests,
              toast>>
upVars == <<accept, maxSize, allowMultiple, files, uploadMounted,
            previewRevokes, fileCount, lastBatch, lastErrors>>
mmVars == <<mmIsAnalyzing, audioAnalysis, imageAnalysis, imageFiles, inFlight>>
imgVars == <<imgIsAnalyzing, analysisResults, imgPending>>
camVars == <<imgSelectedSource, isCapturing, camStream, camError, camPending,
             camStale, camOpened, camLive>>
otherPages == <<mmVars, imgVars, camVars>>
vars == <<recVars, visVars, playVars, pageVars, lastUserOp, upVars, otherPages>>

NoBlob == [present |-> FALSE, data |-> <<>>]
NoError == ""
MicError == "Microphone access denied or not available"
NoResult == [present |-> FALSE, emotion |-> ""]

\* A MediaRecorder over its own stream.  state is the recorder's state
\* attribute; stopQueued: stop() was called and the stop event has not fired;
\* tracksLive: the tracks of its stream have not been stopped.
NewRecorder == [state |-> "inactive", stopQueued |-> FALSE, tracksLive |-> TRUE]

RecIds == 1..Len(recorders)

\* useFileUpload's default maxSize, and the maxSize the image pages pass.
DefaultMaxSize == 10 * 1024 * 1024
ImageMaxSize == 5 * 1024 * 1024

\* The upload hook after its first render.
UploadStart ==
    /\ files = <<>>
    /\ uploadMounted = TRUE
    /\ previewRevokes = <<>>
    /\ fileCount = 0
    /\ lastBatch = <<>>
    /\ lastErrors = <<>>

\* The recorder hook and the visualizer after their first render.
RecorderStart ==
    /\ isRecording = FALSE
    /\ recordingTime = 0
    /\ audioBlob = NoBlob
    /\ audioUrl = 0
    /\ isPlaying = FALSE
    /\ error = NoError
    /\ mediaRecorderRef = 0
    /\ timerRef = 0
    /\ chunksRef = <<>>
    /\ recorders = <<>>
    /\ timers = {}
    /\ revoked = EmptyBag
    /\ pendingStarts = 0
    /\ audioContext = FALSE
    /\ visPending = 0
    /\ visStreams = 0
    /\ visStale = 0
    /\ animationRef = 0
    /\ frames = {}
    /\ playerEl = FALSE
    /\ elPlaying = FALSE
    /\ listenOn = "none"
    /\ pauseQueued = {}
    /\ lastUserOp = "none"

\* The audio page after its first render, on the tab "Record Audio".
PageStart ==
    /\ mounted = TRUE
    /\ selectedSource = "recording"
    /\ isAnalyzing = FALSE
    /\ analysisResult = NoResult
    /\ requests = <<>>
    /\ toast = "none"

\* No analysis in flight on the multi-modal page.
NoneInFlight == [audio |-> 0, image |-> 0, comparison |-> 0]

\* The multi-modal page after its first render.
MultiModalStart ==
    /\ mmIsAnalyzing = FALSE
    /\ audioAnalysis = FALSE
    /\ imageAnalysis = FALSE
    /\ imageFiles = 0
    /\ inFlight = NoneInFlight

\* No handler of the image page is suspended.
NonePending ==
    [kind |-> "none", fileIndex |-> 0, name |-> 0, images |-> <<>>,
     results |-> <<>>, unanalyzed |-> <<>>]

\* The image page after its first render.
ImagePageStart ==
    /\ imgIsAnalyzing = FALSE
    /\ analysisResults = <<>>
    /\ imgPending = NonePending

\* The camera section of the image page after its first render: the page
\* shows the upload tab and CameraCapture is not mounted.
CameraStart ==
    /\ imgSelectedSource = "upload"
    /\ isCapturing = FALSE
    /\ camStream = 0
    /\ camError = FALSE
    /\ camPending = 0
    /\ camStale = 0
    /\ camOpened = 0
    /\ camLive = {}

\* The other pages after their first render.
OtherPagesStart == MultiModalStart /\ ImagePageStart /\ CameraStart

\* The audio page: the recorder, and useFileUpload({ accept: 'audio/*',
\* maxSize: 10 * 1024 * 1024 }).
Init ==
    /\ RecorderStart
    /\ PageStart
    /\ OtherPagesStart
    /\ accept = "audio/*"
    /\ maxSize = DefaultMaxSize
    /\ allowMultiple = FALSE
    /\ UploadStart

\* ------------------------------------------------------------- the renders

\* AudioAnalysis renders the recording section, and AudioVisualizer in it, on
\* the tab "Record Audio" only, and the <audio> element there only when
\* audioUrl is set.
RecordingTabShown(m, source) == m /\ source = "recording"
PlayerShown(m, source, url) == RecordingTabShown(m, source) /\ url # 0

\* The <audio> element and the effect keyed on audioUrl that attaches
\* handleEnded and handlePause (lines 136-150), in the render after a handler.
\* The effect runs again only when audioUrl changed: its cleanup takes the
\* handlers off the element it attached them to, and it attaches them to the
\* element audioPlayerRef holds now, if any.  An element that leaves the
\* document is paused by the browser, which queues a pause event on it; an
\* element whose src changes is reset without a pause event.  pauseQueued
\* keeps the queued pause events of the rendered element ("current") and of
\* a removed element that still carries the handlers ("detached").
PlayerRender ==
    LET was == playerEl
        now == PlayerShown(mounted', selectedSource', audioUrl')
        rerun == audioUrl' # audioUrl
        removed == was /\ ~now
        carried == IF removed /\ ~rerun /\ listenOn = "current"
                      /\ (elPlaying \/ "current" \in pauseQueued)
                   THEN {"detached"}
                   ELSE {}
        kept == (IF rerun THEN pauseQueued \ {"detached"} ELSE pauseQueued)
                    \ (IF removed THEN {"current"} ELSE {})
    IN /\ playerEl' = now
       /\ elPlaying' = IF was /\ now /\ ~rerun THEN elPlaying ELSE FALSE
       /\ listenOn' = IF rerun
                      THEN IF now THEN "current" ELSE "none"
                      ELSE IF removed /\ listenOn = "current"
                           THEN "detached"
                           ELSE listenOn
       /\ pauseQueued' = kept \cup carried

\* maxTime={3}, the prop both pages pass to AudioVisualizer, in ticks of 0.1 s.
MaxTime == 30

\* A progress that leaves out the factor 100.
Progress_NoPercent(t, maxTime) == [num |-> t, den |-> maxTime]

\* const progress = (recordingTime / maxTime) * 100 (line 102), as an exact
\* fraction num / den.
Progress(t, maxTime) == [num |-> t * 100, den |-> maxTime]

\* Math.min(progress, 100): the width of the bar in percent (line 136).
BarWidth(progress) ==
    IF progress.num <= 100 * progress.den
    THEN progress
    ELSE [num |-> 100, den |-> 1]

\* The fraction of the bar that is filled: its width in percent over 100.
DisplayedFraction ==
    LET w == BarWidth(Progress(recordingTime, MaxTime))
    IN [num |-> w.num, den |-> w.den * 100]

\* An id for a new animation frame, apart from the frames fs and the id ref.
NewFrame(fs, ref) ==
    CHOOSE n \in 1..(Cardinality(fs) + 2) : n \notin fs /\ n # ref

\* A cleanup of the draw effect that cancels nothing.
CancelFrame_None(fs, ref) == fs

\* The cleanup of the draw effect (lines 73-77):
\* if (animationRef.current) cancelAnimationFrame(animationRef.current)
CancelFrame(fs, ref) == fs \ {ref}

\* The draw effect of a visualizer that stays mounted (lines 34-78), keyed on
\* isRecording and analyser: when one changed the cleanup of the last run
\* runs, and with an analyser and isRecording true draw() draws and requests
\* a frame.  ctx tells whether the analyser is set after the handler.
DrawEffect(ctx, analyserChanged) ==
    IF isRecording' # isRecording \/ analyserChanged
    THEN LET cancelled == CancelFrame(frames, animationRef)
         IN IF ctx /\ isRecording'
            THEN LET f == NewFrame(cancelled, 0)
                 IN /\ frames' = cancelled \cup {f}
                    /\ animationRef' = f
            ELSE /\ frames' = cancelled
                 /\ animationRef' = animationRef
    ELSE UNCHANGED <<frames, animationRef>>

\* AudioVisualizer's first effect (lines 11-31), keyed on isRecording and
\* audioContext, in a visualizer that stays mounted:
\* if (isRecording && !audioContext) initAudio()
VisEffect(ctx) == isRecording' # isRecording /\ isRecording' /\ ~ctx

\* AudioVisualizer in the render after a handler that left its audioContext
\* and analyser as ctx and pend calls of initAudio pending.  A visualizer
\* that unmounts runs the cleanup of its draw effect and loses its state, its
\* pending initAudio calls go on; a visualizer that mounts starts with no
\* audioContext and runs its first effect.
VisRender(ctx, pend, analyserChanged) ==
    LET was == RecordingTabShown(mounted, selectedSource)
        now == RecordingTabShown(mounted', selectedSource')
    IN IF was /\ now
       THEN /\ audioContext' = ctx
            /\ visPending' = IF VisEffect(ctx) THEN pend + 1 ELSE pend
            /\ visStale' = visStale
            /\ DrawEffect(ctx, analyserChanged)
       ELSE IF was
            THEN /\ audioContext' = FALSE
                 /\ visPending' = 0
                 /\ visStale' = visStale + pend
                 /\ frames' = CancelFrame(frames, animationRef)
                 /\ animationRef' = 0
            ELSE IF now
                 THEN /\ audioContext' = FALSE
                      /\ visPending' = IF isRecording' THEN 1 ELSE 0
                      /\ UNCHANGED <<visStale, frames, animationRef>>
                 ELSE UNCHANGED <<audioContext, visPending, visStale, frames,
                                  animationRef>>

\* The render after a handler of the recorder hook.
Render ==
    /\ PlayerRender
    /\ VisRender(audioContext, visPending, FALSE)
    /\ UNCHANGED visStreams

\* ------------------------------------------------------------ the recorder

\* if (mediaRecorderRef.current.state === 'recording') mediaRecorderRef.current.stop()
\* on the recorder r of the set recs: stop() makes the recorder inactive at
\* once and queues its stop event.
StopIfRecording(recs, r) ==
    IF r # 0 /\ recs[r].state = "recording"
    THEN [recs EXCEPT ![r].state = "inactive", ![r].stopQueued = TRUE]
    ELSE recs

\* The cleanup of the effect keyed on audioUrl (lines 154-164), run by a
\* render in which audioUrl changed and by the unmount.  It reads the refs
\* as they are when it runs: tms and recs are the intervals and the recorders
\* the handler left, tref and mref the refs it left; oldUrl is the audioUrl
\* the cleanup closes over.  (CleanupRevoked_HeldInRef is a cleanup that
\* revokes the URL of the last recorder, whatever the state holds.)
CleanupTimers(tms, tref) == IF tref # 0 THEN tms \ {tref} ELSE tms
CleanupRecorders(recs, mref) == StopIfRecording(recs, mref)
CleanupRevoked_HeldInRef(oldUrl) ==
    IF mediaRecorderRef # 0
    THEN revoked (+) SetToBag({mediaRecorderRef})
    ELSE revoked
CleanupRevoked(oldUrl) ==
    IF oldUrl # 0 THEN revoked (+) SetToBag({oldUrl}) ELSE revoked

\* The render after a handler: the cleanup runs when audioUrl changed.
AfterRender(tms, recs, tref, mref) ==
    IF audioUrl' # audioUrl
    THEN /\ timers' = CleanupTimers(tms, tref)
         /\ recorders' = CleanupRecorders(recs, mref)
         /\ revoked' = CleanupRevoked(audioUrl)
    ELSE /\ timers' = tms
         /\ recorders' = recs
         /\ revoked' = revoked

\* A startRecording that lost its guard.
StartReturnsEarly_Never == FALSE

\* startRecording, line 62: if (isRecording) return
StartReturnsEarly == isRecording

\* startRecording up to its await: the call is suspended until getUserMedia
\* settles.
StartRecording ==
    /\ mounted
    /\ lastUserOp' = IF StartReturnsEarly THEN "start-ignored" ELSE "start"
    /\ IF StartReturnsEarly
       THEN UNCHANGED recVars
       ELSE /\ pendingStarts < MaxPending
            /\ Len(recorders) + pendingStarts < MaxAcquire
            /\ pendingStarts' = pendingStarts + 1
            /\ UNCHANGED <<isRecording, recordingTime, audioBlob, audioUrl,
                           isPlaying, error, mediaRecorderRef, timerRef,
                           chunksRef, recorders, timers, revoked>>
    /\ UNCHANGED <<visVars, playVars, pageVars>>
    /\ UNCHANGED <<upVars, otherPages>>

\* getUserMedia resolves for a suspended startRecording: initializeRecorder
\* builds the recorder and returns true, startRecording goes on to its end.
\* The state setters of an unmounted hook do nothing, and no render follows.
AcquireSuccess ==
    /\ pendingStarts > 0
    /\ pendingStarts' = pendingStarts - 1
    /\ LET r == Len(recorders) + 1
           started == Append(recorders, [NewRecorder EXCEPT !.state = "recording"])
       IN /\ mediaRecorderRef' = r
          /\ timerRef' = r
          /\ IF mounted
             THEN /\ error' = NoError
                  /\ recordingTime' = 0
                  /\ audioBlob' = NoBlob
                  /\ audioUrl' = 0
                  /\ isRecording' = TRUE
                  /\ AfterRender(timers \cup {r}, started, r, r)
             ELSE /\ timers' = timers \cup {r}
                  /\ recorders' = started
                  /\ UNCHANGED <<error, recordingTime, audioBlob, audioUrl,
                                 isRecording, revoked>>
    /\ UNCHANGED <<isPlaying, chunksRef, lastUserOp, pageVars>>
    /\ Render
    /\ UNCHANGED <<upVars, otherPages>>

\* A failed acquisition that is tried again: the call stays suspended.
AcquireFailure_Retry ==
    /\ pendingStarts > 0
    /\ error = NoError
    /\ error' = MicError
    /\ UNCHANGED <<isRecording, recordingTime, audioBlob, audioUrl, isPlaying,
                   mediaRecorderRef, timerRef, chunksRef, recorders, timers,
                   revoked, pendingStarts, lastUserOp>>
    /\ UNCHANGED <<visVars, playVars, pageVars>>
    /\ UNCHANGED <<upVars, otherPages>>

\* getUserMedia rejects: initializeRecorder sets the error and returns false,
\* startRecording returns.
AcquireFailure ==
    /\ pendingStarts > 0
    /\ pendingStarts' = pendingStarts - 1
    /\ error' = IF mounted THEN MicError ELSE error
    /\ UNCHANGED <<isRecording, recordingTime, audioBlob, audioUrl, isPlaying,
                   mediaRecorderRef, timerRef, chunksRef, recorders, timers,
                   revoked, lastUserOp>>
    /\ UNCHANGED <<visVars, playVars, pageVars>>
    /\ UNCHANGED <<upVars, otherPages>>

\* stopRecording, line 92: if (!isRecording || !mediaRecorderRef.current) return
\* where isRecording is the value the callback closes over.
StopApplies(closureIsRecording) == closureIsRecording /\ mediaRecorderRef # 0

\* stopRecording past its guard: setIsRecording(false), clearInterval, stop().
StoppedIsRecording(c) == IF StopApplies(c) THEN FALSE ELSE isRecording
StoppedTimers(c) == IF StopApplies(c) THEN timers \ {timerRef} ELSE timers
StoppedRecorders(c) ==
    IF StopApplies(c) THEN StopIfRecording(recorders, mediaRecorderRef) ELSE recorders

\* The user invokes stopRecording of the latest render.
StopRecording ==
    /\ mounted
    /\ lastUserOp' = IF StopApplies(isRecording) THEN "stop" ELSE "stop-ignored"
    /\ isRecording' = StoppedIsRecording(isRecording)
    /\ timers' = StoppedTimers(isRecording)
    /\ recorders' = StoppedRecorders(isRecording)
    /\ UNCHANGED <<recordingTime, audioBlob, audioUrl, isPlaying, error,
                   mediaRecorderRef, timerRef, chunksRef, revoked,
                   pendingStarts, pageVars>>
    /\ Render
    /\ UNCHANGED <<upVars, otherPages>>

\* The interval callback is created by a startRecording that passed line 62,
\* so the isRecording that this startRecording, and the stopRecording of the
\* same render, close over is false.
TimerClosureIsRecording == FALSE

\* An updater that returns newTime at the deadline too.
TickTime_NoClamp(prev) == prev + TickInterval

\* The updater of the interval callback: newTime = prev + 0.1, 3.0 at the
\* deadline.
TickTime(prev) ==
    IF prev + TickInterval >= Deadline THEN Deadline ELSE prev + TickInterval

\* The interval t fires.  React drops the update of an unmounted hook.
Tick(t) ==
    /\ t \in timers
    /\ IF mounted
       THEN /\ recordingTime' = TickTime(recordingTime)
            /\ IF recordingTime + TickInterval >= Deadline
               THEN /\ isRecording' = StoppedIsRecording(TimerClosureIsRecording)
                    /\ timers' = StoppedTimers(TimerClosureIsRecording)
                    /\ recorders' = StoppedRecorders(TimerClosureIsRecording)
               ELSE UNCHANGED <<isRecording, timers, recorders>>
       ELSE UNCHANGED <<recordingTime, isRecording, timers, recorders>>
    /\ UNCHANGED <<audioBlob, audioUrl, isPlaying, error, mediaRecorderRef,
                   timerRef, chunksRef, revoked, pendingStarts, lastUserOp,
                   pageVars>>
    /\ Render
    /\ UNCHANGED <<upVars, otherPages>>

\* mediaRecorder.ondataavailable with data of positive size, while r records
\* or as the last data of a stopped r.
DataAvailable(r) ==
    /\ r \in RecIds
    /\ recorders[r].state = "recording" \/ recorders[r].stopQueued
    /\ Len(chunksRef) < MaxChunks
    /\ chunksRef' = Append(chunksRef, r)
    /\ UNCHANGED <<isRecording, recordingTime, audioBlob, audioUrl, isPlaying,
                   error, mediaRecorderRef, timerRef, recorders, timers,
                   revoked, pendingStarts, lastUserOp>>
    /\ UNCHANGED <<visVars, playVars, pageVars>>
    /\ UNCHANGED <<upVars, otherPages>>

\* mediaRecorder.onstop of recorder r: the blob and its object URL are made,
\* the buffer is emptied and the tracks are stopped whether or not the hook
\* is still mounted.
OnStop(r) ==
    /\ r \in RecIds
    /\ recorders[r].stopQueued
    /\ chunksRef' = <<>>
    /\ LET stopped == [recorders EXCEPT ![r].stopQueued = FALSE,
                                        ![r].tracksLive = FALSE]
       IN IF mounted
          THEN /\ audioBlob' = [present |-> TRUE, data |-> chunksRef]
               /\ audioUrl' = r
               /\ AfterRender(timers, stopped, timerRef, mediaRecorderRef)
          ELSE /\ recorders' = stopped
               /\ UNCHANGED <<audioBlob, audioUrl, timers, revoked>>
    /\ UNCHANGED <<isRecording, recordingTime, isPlaying, error,
                   mediaRecorderRef, timerRef, pendingStarts, lastUserOp,
                   pageVars>>
    /\ Render
    /\ UNCHANGED <<upVars, otherPages>>

\* The user invokes resetRecording of the latest render.  Its pause() of the
\* <audio> element is followed by the render that removes the element and
\* takes the handlers off it.
ResetRecording ==
    /\ mounted
    /\ lastUserOp' = "reset"
    /\ isRecording' = IF isRecording THEN StoppedIsRecording(isRecording) ELSE isRecording
    /\ recordingTime' = 0
    /\ audioBlob' = NoBlob
    /\ audioUrl' = 0
    /\ isPlaying' = FALSE
    /\ error' = NoError
    /\ AfterRender(IF isRecording THEN StoppedTimers(isRecording) ELSE timers,
                   IF isRecording THEN StoppedRecorders(isRecording) ELSE recorders,
                   timerRef, mediaRecorderRef)
    /\ UNCHANGED <<mediaRecorderRef, timerRef, chunksRef, pendingStarts, pageVars>>
    /\ Render
    /\ UNCHANGED <<upVars, otherPages>>

\* ---------------------------------------------------------- the visualizer

\* initAudio's getUserMedia resolves in the mounted visualizer: the stream
\* feeds the new analyser.
VisAcquireSuccess ==
    /\ visPending > 0
    /\ visStreams' = visStreams + 1
    /\ UNCHANGED <<recVars, playVars, pageVars, lastUserOp>>
    /\ VisRender(TRUE, visPending - 1, TRUE)
    /\ UNCHANGED <<upVars, otherPages>>

\* initAudio's getUserMedia rejects: the error is logged.
VisAcquireFailure ==
    /\ visPending > 0
    /\ visPending' = visPending - 1
    /\ UNCHANGED <<audioContext, visStreams, visStale, animationRef, frames>>
    /\ UNCHANGED <<recVars, playVars, pageVars, lastUserOp>>
    /\ UNCHANGED <<upVars, otherPages>>

\* initAudio's getUserMedia settles for a visualizer that has unmounted: the
\* state setters do nothing, a stream that was opened stays open.
VisStaleSuccess ==
    /\ visStale > 0
    /\ visStale' = visStale - 1
    /\ visStreams' = visStreams + 1
    /\ UNCHANGED <<audioContext, visPending, animationRef, frames>>
    /\ UNCHANGED <<recVars, playVars, pageVars, lastUserOp>>
    /\ UNCHANGED <<upVars, otherPages>>

VisStaleFailure ==
    /\ visStale > 0
    /\ visStale' = visStale - 1
    /\ UNCHANGED <<audioContext, visPending, visStreams, animationRef, frames>>
    /\ UNCHANGED <<recVars, playVars, pageVars, lastUserOp>>
    /\ UNCHANGED <<upVars, otherPages>>
\* draw is requested as a frame only by a draw() that passed its own
\* if (!isRecording) return, so the isRecording a requested draw closes over
\* is true.
FrameClosureIsRecording == TRUE

\* The animation frame f fires: draw() draws and, with its isRecording true,
\* requests the next frame and keeps its id in animationRef (line 66).
Frame(f) ==
    /\ f \in frames
    /\ IF FrameClosureIsRecording
       THEN LET next == NewFrame(frames \ {f}, f)
            IN /\ frames' = (frames \ {f}) \cup {next}
               /\ animationRef' = next
       ELSE /\ frames' = frames \ {f}
            /\ animationRef' = animationRef
    /\ UNCHANGED <<audioContext, visPending, visStreams, visStale>>
    /\ UNCHANGED <<recVars, playVars, pageVars, lastUserOp>>
    /\ UNCHANGED <<upVars, otherPages>>

Next ==
    \/ StartRecording
    \/ AcquireSuccess
    \/ AcquireFailure
    \/ StopRecording
    \/ \E t \in timers : Tick(t)
    \/ \E r \in RecIds : DataAvailable(r)
    \/ \E r \in RecIds : OnStop(r)
    \/ ResetRecording
    \/ VisAcquireSuccess
    \/ VisAcquireFailure

Spec == Init /\ [][Next]_vars

\* ------------------------------------------------------------ the teardown

\* The page leaves the route: the hooks and the components of the page
\* unmount.  The cleanups of the effects run: the one keyed on audioUrl
\* (lines 154-164), the one that takes the player handlers off, and the one
\* of the visualizer's draw effect.  The calls that are suspended and the
\* callbacks that are registered go on afterwards.
Unmount ==
    /\ mounted
    /\ mounted' = FALSE
    /\ uploadMounted' = FALSE
    /\ timers' = CleanupTimers(timers, timerRef)
    /\ recorders' = CleanupRecorders(recorders, mediaRecorderRef)
    /\ revoked' = CleanupRevoked(audioUrl)
    /\ playerEl' = FALSE
    /\ elPlaying' = FALSE
    /\ listenOn' = "none"
    /\ pauseQueued' = {}
    /\ UNCHANGED <<selectedSource, isAnalyzing, analysisResult, requests, toast>>
    /\ UNCHANGED <<isRecording, recordingTime, audioBlob, audioUrl, isPlaying,
                   error, mediaRecorderRef, timerRef, chunksRef, pendingStarts,
                   lastUserOp>>
    /\ VisRender(audioContext, visPending, FALSE)
    /\ UNCHANGED visStreams
    /\ UNCHANGED <<accept, maxSize, allowMultiple, files, previewRevokes,
                   fileCount, lastBatch, lastErrors>>
    /\ UNCHANGED otherPages

\* The recorder hook, torn down at any point.
TeardownNext ==
    \/ StartRecording
    \/ AcquireSuccess
    \/ AcquireFailure
    \/ StopRecording
    \/ \E t \in timers : Tick(t)
    \/ \E r \in RecIds : DataAvailable(r)
    \/ \E r \in RecIds : OnStop(r)
    \/ ResetRecording
    \/ Unmount

TeardownSpec == Init /\ [][TeardownNext]_vars

\* -------------------------------------------------------------- the player

\* playAudio of the latest render (lines 105-115).  pause() on a playing
\* element queues its pause event.
PlayAudio ==
    /\ mounted
    /\ lastUserOp' = "play"
    /\ IF audioUrl = 0 \/ ~playerEl
       THEN UNCHANGED <<isPlaying, elPlaying, pauseQueued>>
       ELSE IF isPlaying
            THEN /\ isPlaying' = FALSE
                 /\ elPlaying' = FALSE
                 /\ pauseQueued' = IF elPlaying
                                   THEN pauseQueued \cup {"current"}
                                   ELSE pauseQueued
            ELSE /\ isPlaying' = TRUE
                 /\ elPlaying' = TRUE
                 /\ UNCHANGED pauseQueued
    /\ UNCHANGED <<playerEl, listenOn>>
    /\ UNCHANGED <<isRecording, recordingTime, audioBlob, audioUrl, error,
                   mediaRecorderRef, timerRef, chunksRef, recorders, timers,
                   revoked, pendingStarts>>
    /\ UNCHANGED <<visVars, pageVars>>
    /\ UNCHANGED <<upVars, otherPages>>

\* The handlers the effect of lines 136-150 attached run on the events of
\* the element they are attached to: setIsPlaying(false).
Heard(el) == mounted /\ (el = "detached" \/ listenOn = "current")

\* The rendered <audio> element plays to its end: it pauses and fires pause
\* and ended.
PlayerEnded ==
    /\ playerEl
    /\ elPlaying
    /\ elPlaying' = FALSE
    /\ isPlaying' = IF Heard("current") THEN FALSE ELSE isPlaying
    /\ UNCHANGED <<playerEl, listenOn, pauseQueued>>
    /\ UNCHANGED <<isRecording, recordingTime, audioBlob, audioUrl, error,
                   mediaRecorderRef, timerRef, chunksRef, recorders, timers,
                   revoked, pendingStarts>>
    /\ UNCHANGED <<visVars, pageVars, lastUserOp>>
    /\ UNCHANGED <<upVars, otherPages>>

\* A queued pause event of the element el fires.
PlayerPaused(el) ==
    /\ el \in pauseQueued
    /\ pauseQueued' = pauseQueued \ {el}
    /\ isPlaying' = IF Heard(el) THEN FALSE ELSE isPlaying
    /\ UNCHANGED <<playerEl, elPlaying, listenOn>>
    /\ UNCHANGED <<isRecording, recordingTime, audioBlob, audioUrl, error,
                   mediaRecorderRef, timerRef, chunksRef, recorders, timers,
                   revoked, pendingStarts>>
    /\ UNCHANGED <<visVars, pageVars, lastUserOp>>
    /\ UNCHANGED <<upVars, otherPages>>

\* The recorder hook with its player: recordings are made, played, reset
\* and made again.
PlaybackNext ==
    \/ StartRecording
    \/ AcquireSuccess
    \/ AcquireFailure
    \/ StopRecording
    \/ \E t \in timers : Tick(t)
    \/ \E r \in RecIds : OnStop(r)
    \/ ResetRecording
    \/ PlayAudio
    \/ PlayerEnded
    \/ \E el \in pauseQueued : PlayerPaused(el)

PlaybackSpec == Init /\ [][PlaybackNext]_vars

\* ---------------------------------------------------------- the audio page

\* The tab buttons: setSelectedSource(source).  The hooks of the page keep
\* their state; the recording section of the page is rendered on the tab
\* "Record Audio" only.
SelectSource(source) ==
    /\ mounted
    /\ source # selectedSource
    /\ (source = "recording" /\ isRecording)
            => visPending + visStale + visStreams < MaxTaps
    /\ selectedSource' = source
    /\ UNCHANGED <<mounted, isAnalyzing, analysisResult, requests, toast>>
    /\ UNCHANGED <<recVars, lastUserOp>>
    /\ Render
    /\ UNCHANGED <<upVars, otherPages>>

\* The controls of the recording section (lines 160-221): "Start Recording"
\* is rendered while isRecording is false and is disabled by an error,
\* "Reset" is rendered beside it once there is a sample or elapsed time,
\* "Stop Recording" is rendered while isRecording is true, the play button
\* with the <audio> element.
StartButtonEnabled ==
    RecordingTabShown(mounted, selectedSource) /\ ~isRecording /\ error = NoError
ResetButtonShown ==
    /\ RecordingTabShown(mounted, selectedSource)
    /\ ~isRecording
    /\ (audioBlob.present \/ recordingTime > 0)
StopButtonShown == RecordingTabShown(mounted, selectedSource) /\ isRecording
PlayButtonShown == PlayerShown(mounted, selectedSource, audioUrl)

ClickStart ==
    /\ StartButtonEnabled
    /\ Len(recorders) + pendingStarts < MaxPageAcquire
    /\ StartRecording
ClickStop == StopButtonShown /\ StopRecording
ClickReset == ResetButtonShown /\ ResetRecording
ClickPlay == PlayButtonShown /\ PlayAudio

AudioPageNext ==
    \/ ClickStart
    \/ AcquireSuccess
    \/ AcquireFailure
    \/ ClickStop
    \/ \E t \in timers : Tick(t)
    \/ \E r \in RecIds : DataAvailable(r)
    \/ \E r \in RecIds : OnStop(r)
    \/ ClickReset
    \/ VisAcquireSuccess
    \/ VisAcquireFailure
    \/ VisStaleSuccess
    \/ VisStaleFailure
    \/ \E source \in {"recording", "upload"} : SelectSource(source)
    \/ ClickPlay
    \/ PlayerEnded
    \/ \E el \in pauseQueued : PlayerPaused(el)

AudioPageSpec == Init /\ [][AudioPageNext]_vars

\* ------------------------------------------------------------- the uploads

\* A File is [name, type, size, preview]: type is the MIME type as
\* <<type, subtype>>, preview is 0 when the file has no preview property,
\* else the object URL.
MimeTypes == {<<"audio", "wav">>, <<"image", "png">>, <<"text", "plain">>}
StartsWith(type, prefix) == type[1] = prefix

\* A size check that rejects a file of exactly maxSize.
TooLarge_Inclusive(file) == file.size >= maxSize

\* validateFile, line 25: file.size > maxSize
TooLarge(file) == file.size > maxSize

\* validateFile: the errors of one file, each [name, kind].
ValidateFile(file) ==
    LET typeErrors ==
            IF accept = "audio/*" /\ ~StartsWith(file.type, "audio")
            THEN <<[name |-> file.name, kind |-> "not-audio"]>>
            ELSE IF accept = "image/*" /\ ~StartsWith(file.type, "image")
                 THEN <<[name |-> file.name, kind |-> "not-image"]>>
                 ELSE <<>>
        sizeErrors ==
            IF TooLarge(file)
            THEN <<[name |-> file.name, kind |-> "too-large"]>>
            ELSE <<>>
    IN typeErrors \o sizeErrors

\* The forEach of addFiles over the rest of the batch: validFiles, allErrors
\* and the number of object URLs created so far.
RECURSIVE AddLoop(_, _, _, _)
AddLoop(rest, validFiles, allErrors, urls) ==
    IF rest = <<>>
    THEN [validFiles |-> validFiles, allErrors |-> allErrors, urls |-> urls]
    ELSE LET file == Head(rest)
             errors == ValidateFile(file)
         IN IF Len(errors) > 0
            THEN AddLoop(Tail(rest), validFiles, allErrors \o errors, urls)
            ELSE IF StartsWith(file.type, "image")
                 THEN AddLoop(Tail(rest),
                              Append(validFiles, [file EXCEPT !.preview = urls + 1]),
                              allErrors, urls + 1)
                 ELSE AddLoop(Tail(rest), Append(validFiles, file), allErrors, urls)

\* The batches handed to addFiles: files of each type, at and just above
\* maxSize.
FileKinds == MimeTypes \X {maxSize, maxSize + 1}
Batches == UNION {[1..n -> FileKinds] : n \in 1..MaxBatch}

\* The File objects of a batch, named apart from every earlier file.
NewFiles(batch) ==
    [k \in 1..Len(batch) |->
        [name |-> fileCount + k, type |-> batch[k][1], size |-> batch[k][2],
         preview |-> 0]]

\* addFiles(newFiles), reached from handleDrop, handleFileSelect and
\* handleCameraCapture: what it does to the hook.
AddFilesToList(batch) ==
    /\ uploadMounted
    /\ fileCount + Len(batch) <= MaxFiles
    /\ LET out == AddLoop(NewFiles(batch), <<>>, <<>>, Len(previewRevokes))
       IN /\ lastBatch' = NewFiles(batch)
          /\ lastErrors' = out.allErrors
          /\ previewRevokes' =
                previewRevokes \o [u \in 1..(out.urls - Len(previewRevokes)) |-> 0]
          /\ files' = IF Len(out.validFiles) > 0
                      THEN IF allowMultiple
                           THEN files \o out.validFiles
                           ELSE out.validFiles
                      ELSE files
    /\ fileCount' = fileCount + Len(batch)
    /\ UNCHANGED <<accept, maxSize, allowMultiple, uploadMounted>>

\* addFiles called from a handler that does nothing else.
AddFiles(batch) ==
    /\ AddFilesToList(batch)
    /\ UNCHANGED <<recVars, visVars, playVars, pageVars, lastUserOp>>
    /\ UNCHANGED otherPages

\* URL.revokeObjectURL(file.preview) if the file has a preview.
RevokePreview(revokes, file) ==
    IF file.preview # 0
    THEN [revokes EXCEPT ![file.preview] = @ + 1]
    ELSE revokes

\* The sequence s without its element i: newFiles.splice(index, 1)
Splice(s, i) == [k \in 1..(Len(s) - 1) |-> IF k < i THEN s[k] ELSE s[k + 1]]

\* removeFile(index) on a listed file (index counts from 1 here).
RemoveFile(index) ==
    /\ uploadMounted
    /\ index \in 1..Len(files)
    /\ previewRevokes' = RevokePreview(previewRevokes, files[index])
    /\ files' = Splice(files, index)
    /\ UNCHANGED <<accept, maxSize, allowMultiple, uploadMounted, fileCount,
                   lastBatch, lastErrors>>
    /\ UNCHANGED <<recVars, visVars, playVars, pageVars, lastUserOp>>
    /\ UNCHANGED otherPages

\* The forEach of clearFiles over the files of the latest render.
RECURSIVE RevokeAll(_, _)
RevokeAll(revokes, rest) ==
    IF rest = <<>> THEN revokes
    ELSE RevokeAll(RevokePreview(revokes, Head(rest)), Tail(rest))

\* clearFiles()
ClearFiles ==
    /\ uploadMounted
    /\ previewRevokes' = RevokeAll(previewRevokes, files)
    /\ files' = <<>>
    /\ UNCHANGED <<accept, maxSize, allowMultiple, uploadMounted, fileCount,
                   lastBatch, lastErrors>>
    /\ UNCHANGED <<recVars, visVars, playVars, pageVars, lastUserOp>>
    /\ UNCHANGED otherPages

\* The page leaves the route and the hook unmounts: useFileUpload registers
\* no effect, so nothing runs.
UploadUnmount ==
    /\ uploadMounted
    /\ uploadMounted' = FALSE
    /\ UNCHANGED <<accept, maxSize, allowMultiple, files, previewRevokes,
                   fileCount, lastBatch, lastErrors>>
    /\ UNCHANGED <<recVars, visVars, playVars, pageVars, lastUserOp>>
    /\ UNCHANGED otherPages

\* The hook under each configuration the pages can pass.
UploadInit ==
    /\ RecorderStart
    /\ PageStart
    /\ OtherPagesStart
    /\ accept \in {"audio/*", "image/*"}
    /\ maxSize \in {DefaultMaxSize, ImageMaxSize}
    /\ allowMultiple \in BOOLEAN
    /\ UploadStart

UploadNext ==
    \/ \E batch \in Batches : AddFiles(batch)
    \/ \E index \in 1..Len(files) : RemoveFile(index)
    \/ ClearFiles
    \/ UploadUnmount

UploadSpec == UploadInit /\ [][UploadNext]_vars

\* ------------------------------------------------------------- the session

\* The sample of the session: audioBlob and audioUrl.
SamplePresent == audioBlob.present \/ audioUrl # 0

\* Idle: nothing recorded, nothing recording, no error.
IdleState ==
    /\ ~isRecording
    /\ recordingTime = 0
    /\ ~SamplePresent
    /\ error = NoError

Recording(r) == recorders[r].state = "recording"

\* ---------------------------------------------------- the multi-modal page

\* The handlers of the multi-modal page that are suspended at their await.
InFlightCount == inFlight.audio + inFlight.image + inFlight.comparison

\* The rest of the model as the handlers of the multi-modal page that touch
\* neither hook leave it.
MultiModalFrame ==
    /\ UNCHANGED <<recVars, visVars, playVars, pageVars, lastUserOp, upVars>>
    /\ UNCHANGED <<imgVars, camVars>>

\* The user selects one audio file of an allowed size in the audio panel,
\* which is rendered while audioAnalysis is null, when none is selected.
MMSelectAudioFile ==
    /\ ~audioAnalysis
    /\ files = <<>>
    /\ AddFiles(<<<<<<"audio", "wav">>, maxSize>>>>)

\* The user selects one valid image in the image panel, which is rendered
\* while imageAnalysis is null, when none is selected.
MMSelectImageFile ==
    /\ ~imageAnalysis
    /\ imageFiles = 0
    /\ imageFiles' = 1
    /\ UNCHANGED <<mmIsAnalyzing, audioAnalysis, imageAnalysis, inFlight>>
    /\ MultiModalFrame

\* handleAudioAnalysis up to its await (lines 71-85).
HandleAudioAnalysis ==
    /\ IF ~audioBlob.present /\ Len(files) = 0
       THEN UNCHANGED <<mmIsAnalyzing, inFlight>>
       ELSE /\ mmIsAnalyzing' = TRUE
            /\ inFlight' = [inFlight EXCEPT !.audio = @ + 1]
    /\ UNCHANGED <<audioAnalysis, imageAnalysis, imageFiles>>
    /\ MultiModalFrame

\* "Analyze Audio" (lines 366-376) is rendered while audioAnalysis is null
\* and disabled only without a sample and a file.
ClickAnalyzeAudio ==
    /\ ~audioAnalysis
    /\ audioBlob.present \/ Len(files) > 0
    /\ InFlightCount < MaxInFlight
    /\ HandleAudioAnalysis

\* The audio request settles: handleAudioAnalysis goes on after its await,
\* sets audioAnalysis when the request succeeded and in its finally sets
\* isAnalyzing to false (lines 87-101).
AudioAnalysisSettled(ok) ==
    /\ inFlight.audio > 0
    /\ inFlight' = [inFlight EXCEPT !.audio = @ - 1]
    /\ audioAnalysis' = IF ok THEN TRUE ELSE audioAnalysis
    /\ mmIsAnalyzing' = FALSE
    /\ UNCHANGED <<imageAnalysis, imageFiles>>
    /\ MultiModalFrame

\* handleImageAnalysis up to its await (lines 105-119); selectedImageFile
\* stays null here, the image comes from the upload hook.
HandleImageAnalysis ==
    /\ IF imageFiles = 0
       THEN UNCHANGED <<mmIsAnalyzing, inFlight>>
       ELSE /\ mmIsAnalyzing' = TRUE
            /\ inFlight' = [inFlight EXCEPT !.image = @ + 1]
    /\ UNCHANGED <<audioAnalysis, imageAnalysis, imageFiles>>
    /\ MultiModalFrame

\* "Analyze Image" (lines 509-519) is rendered while imageAnalysis is null
\* and disabled only without an image.
ClickAnalyzeImage ==
    /\ ~imageAnalysis
    /\ imageFiles > 0
    /\ InFlightCount < MaxInFlight
    /\ HandleImageAnalysis

\* The image request settles (lines 121-135).
ImageAnalysisSettled(ok) ==
    /\ inFlight.image > 0
    /\ inFlight' = [inFlight EXCEPT !.image = @ - 1]
    /\ imageAnalysis' = IF ok THEN TRUE ELSE imageAnalysis
    /\ mmIsAnalyzing' = FALSE
    /\ UNCHANGED <<audioAnalysis, imageFiles>>
    /\ MultiModalFrame

\* handleMultiModalAnalysis up to its await (lines 228-238).
HandleMultiModalAnalysis ==
    /\ IF ~audioAnalysis \/ ~imageAnalysis
       THEN UNCHANGED <<mmIsAnalyzing, inFlight>>
       ELSE /\ mmIsAnalyzing' = TRUE
            /\ inFlight' = [inFlight EXCEPT !.comparison = @ + 1]
    /\ UNCHANGED <<audioAnalysis, imageAnalysis, imageFiles>>
    /\ MultiModalFrame

\* The comparison button (lines 527-534) is disabled without both results
\* and while isAnalyzing.
ClickMultiModal ==
    /\ audioAnalysis
    /\ imageAnalysis
    /\ ~mmIsAnalyzing
    /\ InFlightCount < MaxInFlight
    /\ HandleMultiModalAnalysis

\* The timeout of the comparison elapses: setIsAnalyzing(false) (line 246).
ComparisonDone ==
    /\ inFlight.comparison > 0
    /\ inFlight' = [inFlight EXCEPT !.comparison = @ - 1]
    /\ mmIsAnalyzing' = FALSE
    /\ UNCHANGED <<audioAnalysis, imageAnalysis, imageFiles>>
    /\ MultiModalFrame

\* "Reset Audio Analysis" (lines 291-296): setAudioAnalysis(null),
\* resetRecording() and clearAudioFiles(), on a recorder that is idle, where
\* resetRecording changes no state.
ResetAudioAnalysis ==
    /\ audioAnalysis
    /\ IdleState /\ ~isPlaying
    /\ audioAnalysis' = FALSE
    /\ lastUserOp' = "reset"
    /\ previewRevokes' = RevokeAll(previewRevokes, files)
    /\ files' = <<>>
    /\ UNCHANGED <<accept, maxSize, allowMultiple, uploadMounted, fileCount,
                   lastBatch, lastErrors>>
    /\ UNCHANGED <<mmIsAnalyzing, imageAnalysis, imageFiles, inFlight>>
    /\ UNCHANGED <<recVars, visVars, playVars, pageVars>>
    /\ UNCHANGED <<imgVars, camVars>>

\* "Reset Image Analysis" (lines 404-410).
ResetImageAnalysis ==
    /\ imageAnalysis
    /\ imageAnalysis' = FALSE
    /\ imageFiles' = 0
    /\ UNCHANGED <<mmIsAnalyzing, audioAnalysis, inFlight>>
    /\ MultiModalFrame

\* The multi-modal page with uploaded audio and image files.
MultiModalNext ==
    \/ MMSelectAudioFile
    \/ MMSelectImageFile
    \/ ClickAnalyzeAudio
    \/ \E ok \in BOOLEAN : AudioAnalysisSettled(ok)
    \/ ClickAnalyzeImage
    \/ \E ok \in BOOLEAN : ImageAnalysisSettled(ok)
    \/ ClickMultiModal
    \/ ComparisonDone
    \/ ResetAudioAnalysis
    \/ ResetImageAnalysis

MultiModalSpec == Init /\ [][MultiModalNext]_vars

\* ---------------------------------------------------------- the image page

\* The image page: useFileUpload({ accept: 'image/*', maxSize: 5 MB,
\* allowMultiple: true }), whose files are selectedImages.
ImagePageInit ==
    /\ RecorderStart
    /\ PageStart
    /\ OtherPagesStart
    /\ accept = "image/*"
    /\ maxSize = ImageMaxSize
    /\ allowMultiple = TRUE
    /\ UploadStart

\* The rest of the model as the handlers of the image page that do not
\* touch the upload hook leave it.
ImagePageFrame ==
    /\ UNCHANGED <<recVars, visVars, playVars, pageVars, lastUserOp, upVars>>
    /\ UNCHANGED <<mmVars, camVars>>

\* The names of the files of a list, in order.
Names(list) == [k \in 1..Len(list) |-> list[k].name]

\* indexOf / findIndex: the first index of name in names, 0 for -1.
IndexOf(names, name) ==
    IF \E k \in 1..Len(names) : names[k] = name
    THEN CHOOSE k \in 1..Len(names) :
            names[k] = name /\ \A j \in 1..(k - 1) : names[j] # name
    ELSE 0

\* The sequence s without what filter rejects, in order.
RECURSIVE Unanalyzed(_, _, _)
Unanalyzed(names, results, k) ==
    IF k > Len(names) THEN <<>>
    ELSE IF k \in DOMAIN results
         THEN Unanalyzed(names, results, k + 1)
         ELSE <<names[k]>> \o Unanalyzed(names, results, k + 1)

\* A valid image is dropped, selected or captured: addFiles of one file.
AddImage == AddFiles(<<<<<<"image", "png">>, maxSize>>>>)

\* handleAnalyzeSingle(file) up to its await (lines 56-63): the index of
\* the file is taken now.
HandleAnalyzeSingle(index) ==
    /\ index \in 1..Len(files)
    /\ imgIsAnalyzing' = TRUE
    /\ imgPending' = [NonePending EXCEPT !.kind = "single",
                                         !.fileIndex = index,
                                         !.name = files[index].name]
    /\ UNCHANGED analysisResults
    /\ ImagePageFrame

\* "Analyze Emotion" of an image card is disabled while isAnalyzing.
ClickAnalyzeSingle(index) == ~imgIsAnalyzing /\ HandleAnalyzeSingle(index)

\* setAnalysisResults(prev => ({ ...prev, [fileIndex]: result })), lines
\* 65-71: the result of the image sent is stored under the index taken
\* before the await.
SingleStored(results, pending) ==
    [k \in DOMAIN results \cup {pending.fileIndex} |->
        IF k = pending.fileIndex THEN pending.name ELSE results[k]]

\* The request of handleAnalyzeSingle settles (lines 63-82).
SingleSettled(ok) ==
    /\ imgPending.kind = "single"
    /\ imgPending' = NonePending
    /\ imgIsAnalyzing' = FALSE
    /\ analysisResults' = IF ok
                          THEN SingleStored(analysisResults, imgPending)
                          ELSE analysisResults
    /\ ImagePageFrame

\* handleAnalyzeAll up to its await (lines 85-102); with nothing left to
\* analyse it returns and its finally sets isAnalyzing to false.
HandleAnalyzeAll ==
    /\ IF Len(files) = 0
       THEN UNCHANGED <<imgIsAnalyzing, imgPending>>
       ELSE LET unanalyzed == Unanalyzed(Names(files), analysisResults, 1)
            IN IF unanalyzed = <<>>
               THEN /\ imgIsAnalyzing' = FALSE
                    /\ UNCHANGED imgPending
               ELSE /\ imgIsAnalyzing' = TRUE
                    /\ imgPending' = [NonePending EXCEPT
                                        !.kind = "batch",
                                        !.images = Names(files),
                                        !.results = analysisResults,
                                        !.unanalyzed = unanalyzed]
    /\ UNCHANGED analysisResults
    /\ ImagePageFrame

\* "Analyze All" (BatchAnalysisControls) is rendered with images and
\* disabled while isAnalyzing or when analyzedCount equals totalCount.
ClickAnalyzeAll ==
    /\ Len(files) > 0
    /\ ~imgIsAnalyzing
    /\ Cardinality(DOMAIN analysisResults) # Len(files)
    /\ HandleAnalyzeAll

\* The forEach over batchResult.results (lines 108-119): the results of
\* the images in succeeded are set into newResults, a copy of the
\* analysisResults of the render of the click, under the index each image
\* had in the selectedImages of that render.
BatchStored(pending, succeeded) ==
    LET hit == {IndexOf(pending.images, n) : n \in succeeded} \ {0}
    IN [k \in DOMAIN pending.results \cup hit |->
            IF k \in hit THEN pending.images[k] ELSE pending.results[k]]

\* The range of a sequence.
Range(s) == {s[k] : k \in 1..Len(s)}

\* The request of handleAnalyzeAll settles (lines 102-132): with a
\* response, the results of the images the server analysed successfully
\* are stored.
AnalyzeAllSettled(ok, succeeded) ==
    /\ imgPending.kind = "batch"
    /\ succeeded \subseteq Range(imgPending.unanalyzed)
    /\ imgPending' = NonePending
    /\ imgIsAnalyzing' = FALSE
    /\ analysisResults' = IF ok
                          THEN BatchStored(imgPending, succeeded)
                          ELSE analysisResults
    /\ ImagePageFrame

\* The reindexing of handleRemoveImage (lines 144-159): the entry of index
\* is dropped and the entries above it move down by one.
Reindexed(results, index) ==
    LET kept == DOMAIN results \ {index}
    IN [k \in {j \in kept : j < index} \cup {j - 1 : j \in {i \in kept : i > index}} |->
            IF k < index /\ k \in kept THEN results[k] ELSE results[k + 1]]

\* handleRemoveImage(index): the results are reindexed and removeFile(index)
\* removes the image; the remove button of a card stays enabled while an
\* analysis is in flight.
HandleRemoveImage(index) ==
    /\ index \in 1..Len(files)
    /\ analysisResults' = Reindexed(analysisResults, index)
    /\ previewRevokes' = RevokePreview(previewRevokes, files[index])
    /\ files' = Splice(files, index)
    /\ UNCHANGED <<accept, maxSize, allowMultiple, uploadMounted, fileCount,
                   lastBatch, lastErrors>>
    /\ UNCHANGED <<imgIsAnalyzing, imgPending>>
    /\ UNCHANGED <<recVars, visVars, playVars, pageVars, lastUserOp>>
    /\ UNCHANGED <<mmVars, camVars>>

\* handleClearAll (lines 165-168); "Clear All" is disabled while
\* isAnalyzing.
HandleClearAll ==
    /\ Len(files) > 0
    /\ ~imgIsAnalyzing
    /\ analysisResults' = <<>>
    /\ previewRevokes' = RevokeAll(previewRevokes, files)
    /\ files' = <<>>
    /\ UNCHANGED <<accept, maxSize, allowMultiple, uploadMounted, fileCount,
                   lastBatch, lastErrors>>
    /\ UNCHANGED <<imgIsAnalyzing, imgPending>>
    /\ UNCHANGED <<recVars, visVars, playVars, pageVars, lastUserOp>>
    /\ UNCHANGED <<mmVars, camVars>>

\* The image page: images are added, analysed one by one or all at once,
\* removed and cleared.
ImagePageNext ==
    \/ AddImage
    \/ \E index \in 1..Len(files) : ClickAnalyzeSingle(index)
    \/ \E ok \in BOOLEAN : SingleSettled(ok)
    \/ ClickAnalyzeAll
    \/ \E ok \in BOOLEAN :
         \E succeeded \in SUBSET Range(imgPending.unanalyzed) :
            AnalyzeAllSettled(ok, succeeded)
    \/ \E index \in 1..Len(files) : HandleRemoveImage(index)
    \/ HandleClearAll

ImagePageSpec == ImagePageInit /\ [][ImagePageNext]_vars

\* ------------------------------------------------------------- the camera

\* CameraCapture is rendered on the camera tab of the image page.
CameraMounted == imgSelectedSource = "camera"

\* The rest of the model as the camera handlers that do not add a file
\* leave it.
CameraFrame ==
    /\ UNCHANGED <<recVars, visVars, playVars, pageVars, lastUserOp, upVars>>
    /\ UNCHANGED <<mmVars, imgVars>>

\* stopCamera (lines 237-242): the tracks of the stream are stopped.
StoppedLive(live, stream) == live \ {stream}

\* The effect keyed on isCapturing (lines 245-251) in a CameraCapture that
\* stays mounted, after a handler that changed isCapturing: with isCapturing
\* true and no stream in its render startCamera is called, with isCapturing
\* false and a stream stopCamera stops the tracks and sets stream to null.
CaptureEffect ==
    IF isCapturing' # isCapturing
    THEN IF isCapturing' /\ camStream = 0
         THEN /\ camPending' = camPending + 1
              /\ UNCHANGED <<camStream, camLive>>
         ELSE IF ~isCapturing' /\ camStream # 0
              THEN /\ camLive' = StoppedLive(camLive, camStream)
                   /\ camStream' = 0
                   /\ UNCHANGED camPending
              ELSE UNCHANGED <<camStream, camLive, camPending>>
    ELSE UNCHANGED <<camStream, camLive, camPending>>

\* "Camera Capture" tab: setSelectedSource('camera').  CameraCapture mounts
\* with no stream and its effect runs with the isCapturing of the page.
SelectCameraTab ==
    /\ ~CameraMounted
    /\ isCapturing => camPending + camStale + camOpened < MaxCamAcquire
    /\ imgSelectedSource' = "camera"
    /\ camStream' = 0
    /\ camError' = FALSE
    /\ camPending' = IF isCapturing THEN 1 ELSE 0
    /\ UNCHANGED <<isCapturing, camStale, camOpened, camLive>>
    /\ CameraFrame

\* "Upload Images" tab on the camera tab: setSelectedSource('upload') and
\* setIsCapturing(false) in one render, in which CameraCapture unmounts.
\* The cleanup of its effect with no dependencies closes over the stream
\* of its first render, which is null, so it stops nothing; the startCamera
\* calls that are suspended go on.
SelectUploadTab ==
    /\ CameraMounted
    /\ imgSelectedSource' = "upload"
    /\ isCapturing' = FALSE
    /\ camStream' = 0
    /\ camError' = FALSE
    /\ camPending' = 0
    /\ camStale' = camStale + camPending
    /\ UNCHANGED <<camOpened, camLive>>
    /\ CameraFrame

\* "Start Camera" / "Stop Camera": onToggleCamera sets isCapturing to its
\* negation and the effect keyed on isCapturing runs.
ToggleCamera ==
    /\ CameraMounted
    /\ (~isCapturing /\ camStream = 0)
            => camPending + camStale + camOpened < MaxCamAcquire
    /\ isCapturing' = ~isCapturing
    /\ CaptureEffect
    /\ UNCHANGED <<imgSelectedSource, camError, camStale, camOpened>>
    /\ CameraFrame

\* getUserMedia of a startCamera of the mounted CameraCapture resolves
\* (lines 223-230): setStream(mediaStream), setError(null).  The effect is
\* keyed on isCapturing alone and does not run.
CamAcquireSuccess ==
    /\ camPending > 0
    /\ camPending' = camPending - 1
    /\ camOpened' = camOpened + 1
    /\ camLive' = camLive \cup {camOpened + 1}
    /\ camStream' = camOpened + 1
    /\ camError' = FALSE
    /\ UNCHANGED <<imgSelectedSource, isCapturing, camStale>>
    /\ CameraFrame

\* getUserMedia rejects (lines 231-234): setError.
CamAcquireFailure ==
    /\ camPending > 0
    /\ camPending' = camPending - 1
    /\ camError' = TRUE
    /\ UNCHANGED <<imgSelectedSource, isCapturing, camStream, camStale,
                   camOpened, camLive>>
    /\ CameraFrame

\* getUserMedia of a startCamera whose CameraCapture has unmounted
\* resolves: the stream is open and the state setters do nothing.
CamStaleSuccess ==
    /\ camStale > 0
    /\ camStale' = camStale - 1
    /\ camOpened' = camOpened + 1
    /\ camLive' = camLive \cup {camOpened + 1}
    /\ UNCHANGED <<imgSelectedSource, isCapturing, camStream, camError,
                   camPending>>
    /\ CameraFrame

CamStaleFailure ==
    /\ camStale > 0
    /\ camStale' = camStale - 1
    /\ UNCHANGED <<imgSelectedSource, isCapturing, camStream, camError,
                   camPending, camOpened, camLive>>
    /\ CameraFrame

\* capturePhoto (lines 262-280), whose button is rendered while isCapturing:
\* the photo goes to handleCameraCapture, which adds it to the images and
\* sets isCapturing to false, and the effect keyed on isCapturing runs.
CapturePhoto ==
    /\ CameraMounted
    /\ isCapturing
    /\ AddFilesToList(<<<<<<"image", "jpeg">>, maxSize>>>>)
    /\ isCapturing' = FALSE
    /\ CaptureEffect
    /\ UNCHANGED <<imgSelectedSource, camError, camStale, camOpened>>
    /\ UNCHANGED <<recVars, visVars, playVars, pageVars, lastUserOp>>
    /\ UNCHANGED <<mmVars, imgVars>>

\* The image page with its camera tab.
CameraNext ==
    \/ SelectCameraTab
    \/ SelectUploadTab
    \/ ToggleCamera
    \/ CamAcquireSuccess
    \/ CamAcquireFailure
    \/ CamStaleSuccess
    \/ CamStaleFailure
    \/ CapturePhoto
    \/ \E index \in 1..Len(files) : HandleRemoveImage(index)

CameraSpec == ImagePageInit /\ [][CameraNext]_vars

\* ------------------------------------------------------------------ claims

\* C1: after a start() that succeeded and no stop() or reset() by the user,
\* once the ticks have brought elapsed to 3.0 the session is stopped:
\* isRecording is false, the ticker is cancelled and the recorder is
\* finalized (no longer recording), with elapsed exactly 3.0.
C1_AutoStopAtDeadline ==
    (lastUserOp = "start" /\ recordingTime = Deadline)
        => /\ ~isRecording
           /\ timers = {}
           /\ \A r \in RecIds : ~Recording(r)

\* C2: after a stop() the user issued while Recording, no step changes
\* elapsed as long as the user issues nothing else; and once the stop event
\* of the recorder has fired the sample is non-null and every track of the
\* recorder's stream is stopped.
C2_UserStopYieldsStopped ==
    /\ [][(lastUserOp = "stop" /\ lastUserOp' = "stop")
            => recordingTime' = recordingTime]_vars
    /\ []((/\ lastUserOp = "stop"
           /\ mediaRecorderRef # 0
           /\ ~recorders[mediaRecorderRef].stopQueued)
            => /\ SamplePresent
               /\ ~recorders[mediaRecorderRef].tracksLive)

\* C3: reset() yields Idle (elapsed 0, no sample, no error, not recording)
\* from any state, and a finalization callback of the recorder that runs
\* after the reset leaves the session Idle.
C3_ResetYieldsIdle ==
    [][/\ ResetRecording => IdleState'
       /\ (lastUserOp = "reset" /\ IdleState /\ \E r \in RecIds : OnStop(r))
            => IdleState']_vars

\* C4: a start() issued while an acquisition is pending is a no-op, so there
\* is never more than one pending acquisition, one ticker or one recorder
\* recording.
C4_StartNonReentrant ==
    /\ pendingStarts <= 1
    /\ Cardinality(timers) <= 1
    /\ Cardinality({r \in RecIds : Recording(r)}) <= 1

\* C5: a start() issued while the session is Recording changes nothing: no
\* acquisition is requested, and elapsed, the ticker, the recorder and the
\* buffered chunks are unchanged.
C5_StartWhileRecordingNoOp ==
    [][(isRecording /\ StartRecording) => UNCHANGED <<recVars, visVars>>]_vars

\* C5 witness: start() was ignored in a session that is recording, with a
\* ticker running and time elapsed.
C5_Witness ==
    /\ lastUserOp = "start-ignored"
    /\ isRecording
    /\ recordingTime > 0
    /\ timers # {}

\* C6: the sample is non-null only when the session is Stopped: not while
\* Recording, not while an acquisition is pending, not in Error.
C6_SampleOnlyWhenStopped ==
    SamplePresent => (~isRecording /\ pendingStarts = 0 /\ error = NoError)

\* C7: a microphone stream has live tracks only while the session is
\* Requesting or Recording, be it the stream of a recorder or the stream of
\* the visualizer's analysis tap.  (A recorder whose stop event is queued is
\* about to release its tracks and is not counted.)
C7_NoLiveStreamOutsideSession ==
    (\/ \E r \in RecIds : recorders[r].tracksLive /\ ~recorders[r].stopQueued
     \/ visStreams > 0)
        => (isRecording \/ pendingStarts > 0)

\* C8: elapsed is between 0 and the deadline of 3.0 s in every state.
C8_ElapsedWithinDeadline == recordingTime >= 0 /\ recordingTime <= Deadline

\* C8 witness: elapsed is at the deadline and a ticker is still set, so ticks
\* fire after the deadline was reached.
C8_Witness == recordingTime = Deadline /\ timers # {} /\ isRecording

\* The active file set: the files of the mounted hook.
ActivePreviews ==
    IF uploadMounted
    THEN {files[i].preview : i \in 1..Len(files)} \ {0}
    ELSE {}

\* C9: every preview URL addFiles created is unreleased while its file is in
\* the active set and released exactly once when the file is not (removed,
\* cleared, replaced by a later add, or the hook torn down).
C9_PreviewReleasedExactlyOnce ==
    \A u \in 1..Len(previewRevokes) :
        previewRevokes[u] = IF u \in ActivePreviews THEN 0 ELSE 1

\* The policies of the hook, as the claim states them.
ViolatesType(f) ==
    \/ accept = "audio/*" /\ f.type[1] # "audio"
    \/ accept = "image/*" /\ f.type[1] # "image"
ViolatesSize(f) == f.size > maxSize

InFiles(name) == \E i \in 1..Len(files) : files[i].name = name
ErrorsNaming(name) ==
    Cardinality({i \in 1..Len(lastErrors) : lastErrors[i].name = name})

\* The state addFiles leaves for its batch: a file of the batch is in the
\* accepted set exactly if it violates neither policy, and the errors naming
\* it are one for each policy it violates.
BatchSettled ==
    \A k \in 1..Len(lastBatch) :
        LET f == lastBatch[k]
        IN /\ InFiles(f.name) <=> (~ViolatesType(f) /\ ~ViolatesSize(f))
           /\ ErrorsNaming(f.name) =
                (IF ViolatesType(f) THEN 1 ELSE 0) + (IF ViolatesSize(f) THEN 1 ELSE 0)

\* The same with exactly one error naming every file that exceeds maxSize.
BatchSettledOneError ==
    \A k \in 1..Len(lastBatch) :
        LET f == lastBatch[k]
        IN /\ InFiles(f.name) <=> (~ViolatesType(f) /\ ~ViolatesSize(f))
           /\ ViolatesSize(f) => ErrorsNaming(f.name) = 1

\* C10, as amended: after addFiles a file of the batch is in the accepted set
\* exactly if it violates neither policy, whatever the other files of the
\* batch; a file rejected for its size alone has exactly one error naming it,
\* and a file that violates both policies has two.
C10_AcceptedIffValid == [][lastBatch' # lastBatch => BatchSettled']_vars

\* C10, as stated: after addFiles a file of the batch is in the accepted set
\* exactly if it violates neither policy, and every file rejected for
\* exceeding maxSize has exactly one error naming it.
C10_OneErrorPerOversizeFile ==
    [][lastBatch' # lastBatch => BatchSettledOneError']_vars

\* C10 witness: a batch of an oversize file A of the accepted type and a valid
\* file B was added: B is in the set, A is not, one error names A.
C10_Witness ==
    \E a, b \in 1..Len(lastBatch) :
        /\ ViolatesSize(lastBatch[a]) /\ ~ViolatesType(lastBatch[a])
        /\ ~ViolatesSize(lastBatch[b]) /\ ~ViolatesType(lastBatch[b])
        /\ InFiles(lastBatch[b].name)
        /\ ~InFiles(lastBatch[a].name)
        /\ ErrorsNaming(lastBatch[a].name) = 1
        /\ Len(lastErrors) = 1

\* ------------------------------------------------------------ the analysis

\* The filename handleAnalyze gives the recorded sample, 'recording.webm';
\* the uploaded files are named by numbers from 1.
RecordingFilename == 0

\* handleAnalyze up to its await (lines 45-67).  Where no source matches the
\* selected tab it returns inside try, and finally sets isAnalyzing to false
\* in the same event.
HandleAnalyze ==
    /\ mounted
    /\ IF ~audioBlob.present /\ Len(files) = 0
       THEN /\ toast' = "record-or-upload-first"
            /\ UNCHANGED <<isAnalyzing, requests>>
       ELSE IF selectedSource = "recording" /\ audioBlob.present
            THEN /\ toast' = "analyzing-recorded"
                 /\ isAnalyzing' = TRUE
                 /\ requests' = Append(requests, [name |-> RecordingFilename,
                                                 source |-> "recording"])
            ELSE IF selectedSource = "upload" /\ Len(files) > 0
                 THEN /\ toast' = "analyzing-uploaded"
                      /\ isAnalyzing' = TRUE
                      /\ requests' = Append(requests, [name |-> files[1].name,
                                                      source |-> "upload"])
                 ELSE /\ toast' = "no-source"
                      /\ isAnalyzing' = FALSE
                      /\ UNCHANGED requests
    /\ UNCHANGED <<mounted, selectedSource, analysisResult>>
    /\ UNCHANGED <<recVars, visVars, playVars, lastUserOp>>
    /\ UNCHANGED <<upVars, otherPages>>

\* "Analyze Audio Emotion" (lines 313-331) is disabled without a sample and
\* a file and while isAnalyzing; "Analyze Again" (lines 409-415), rendered
\* with a result, is disabled while isAnalyzing.
AnalyzeButtonEnabled ==
    /\ mounted
    /\ ~isAnalyzing
    /\ (audioBlob.present \/ Len(files) > 0 \/ analysisResult.present)

ClickAnalyze == AnalyzeButtonEnabled /\ HandleAnalyze

\* A resolved request whose handler never reaches its finally.
AnalyzeSuccess_KeepsAnalyzing(code) ==
    /\ requests # <<>>
    /\ requests' = Tail(requests)
    /\ toast' = "complete"
    /\ analysisResult' = IF mounted
                         THEN [present |-> TRUE, emotion |-> code]
                         ELSE analysisResult
    /\ UNCHANGED <<mounted, selectedSource, isAnalyzing>>
    /\ UNCHANGED <<recVars, visVars, playVars, lastUserOp>>
    /\ UNCHANGED <<upVars, otherPages>>

\* The request in flight resolves with a result whose emotion is code:
\* handleAnalyze goes on after its await (lines 69-83).  The state setters
\* of an unmounted page do nothing.
AnalyzeSuccess(code) ==
    /\ requests # <<>>
    /\ requests' = Tail(requests)
    /\ toast' = "complete"
    /\ analysisResult' = IF mounted
                         THEN [present |-> TRUE, emotion |-> code]
                         ELSE analysisResult
    /\ isAnalyzing' = IF mounted THEN FALSE ELSE isAnalyzing
    /\ UNCHANGED <<mounted, selectedSource>>
    /\ UNCHANGED <<recVars, visVars, playVars, lastUserOp>>
    /\ UNCHANGED <<upVars, otherPages>>

\* A failed submission that resets the elapsed time of the session.
AnalyzeFailure_ResetsElapsed ==
    /\ requests # <<>>
    /\ requests' = Tail(requests)
    /\ toast' = "failed"
    /\ isAnalyzing' = IF mounted THEN FALSE ELSE isAnalyzing
    /\ recordingTime' = 0
    /\ UNCHANGED <<mounted, selectedSource, analysisResult>>
    /\ UNCHANGED <<isRecording, audioBlob, audioUrl, isPlaying, error,
                   mediaRecorderRef, timerRef, chunksRef, recorders, timers,
                   revoked, pendingStarts>>
    /\ UNCHANGED <<visVars, playVars, lastUserOp>>
    /\ UNCHANGED <<upVars, otherPages>>

\* The request in flight fails: emotionAPI.analyzeAudio throws, the catch of
\* handleAnalyze raises the error toast, finally sets isAnalyzing to false
\* (lines 78-83).
AnalyzeFailure ==
    /\ requests # <<>>
    /\ requests' = Tail(requests)
    /\ toast' = "failed"
    /\ isAnalyzing' = IF mounted THEN FALSE ELSE isAnalyzing
    /\ UNCHANGED <<mounted, selectedSource, analysisResult>>
    /\ UNCHANGED <<recVars, visVars, playVars, lastUserOp>>
    /\ UNCHANGED <<upVars, otherPages>>

\* "Clear Results": setAnalysisResult(null)
ClearResult ==
    /\ mounted
    /\ analysisResult.present
    /\ analysisResult' = NoResult
    /\ UNCHANGED <<mounted, selectedSource, isAnalyzing, requests, toast>>
    /\ UNCHANGED <<recVars, visVars, playVars, lastUserOp>>
    /\ UNCHANGED <<upVars, otherPages>>

\* The user selects one audio file of an allowed size on the upload tab, when
\* none is selected.
SelectAudioFile ==
    /\ selectedSource = "upload"
    /\ files = <<>>
    /\ AddFiles(<<<<<<"audio", "wav">>, maxSize>>>>)

\* The audio page with its recorder and its submissions: the session is
\* recorded, stopped and reset while submissions of the sample or of an
\* uploaded file are made and settle.  The recorders deliver no data of
\* positive size here, so the samples are empty.
AnalyzeNext ==
    \/ ClickStart
    \/ AcquireSuccess
    \/ AcquireFailure
    \/ ClickStop
    \/ \E t \in timers : Tick(t)
    \/ \E r \in RecIds : OnStop(r)
    \/ ClickReset
    \/ \E source \in {"recording", "upload"} : SelectSource(source)
    \/ SelectAudioFile
    \/ ClickAnalyze
    \/ AnalyzeSuccess("HAP")
    \/ AnalyzeFailure
    \/ ClearResult

AnalyzeSpec == Init /\ [][AnalyzeNext]_vars

\* The axios instance has a timeout of 30 s (api.js line 10), so a request
\* in flight settles: it resolves or it fails.
AnalyzeFairSpec ==
    AnalyzeSpec /\ WF_vars(AnalyzeSuccess("HAP") \/ AnalyzeFailure)

\* The visualizer on the audio page: the recording controls, the tabs that
\* mount and unmount it, the page leaving, and its animation frames.
VisualizerNext ==
    \/ ClickStart
    \/ AcquireSuccess
    \/ AcquireFailure
    \/ ClickStop
    \/ \E t \in timers : Tick(t)
    \/ \E r \in RecIds : OnStop(r)
    \/ ClickReset
    \/ VisAcquireSuccess
    \/ VisAcquireFailure
    \/ VisStaleSuccess
    \/ VisStaleFailure
    \/ \E source \in {"recording", "upload"} : SelectSource(source)
    \/ Unmount
    \/ \E f \in frames : Frame(f)

VisualizerSpec == Init /\ [][VisualizerNext]_vars

\* ------------------------------------------------------- the emotion labels

\* emotionMap (emotions.js lines 9-18): the own properties of the object.
EmotionMap ==
    [ANG |-> "Angry", CAL |-> "Calm", DIS |-> "Disgusted", FEA |-> "Fearful",
     HAP |-> "Happy", NEU |-> "Neutral", SAD |-> "Sad", SUR |-> "Surprised"]

\* emotionMap is an object literal, so a lookup that finds no own property
\* goes on to Object.prototype: these keys yield its members (functions, and
\* the prototype itself for __proto__), all truthy.
ObjectPrototypeKeys ==
    {"constructor", "toString", "valueOf", "hasOwnProperty", "__proto__"}

\* A JavaScript value: a string, a member of Object.prototype, or undefined.
JsString(str) == [kind |-> "string", value |-> str]
JsInherited(key) == [kind |-> "inherited", value |-> key]
JsUndefined == [kind |-> "undefined", value |-> ""]

\* emotionMap[emotionCode]
EmotionLookup(emotionCode) ==
    IF emotionCode \in DOMAIN EmotionMap
    THEN JsString(EmotionMap[emotionCode])
    ELSE IF emotionCode \in ObjectPrototypeKeys
         THEN JsInherited(emotionCode)
         ELSE JsUndefined

\* The empty string and undefined are falsy.
Truthy(v) == v # JsUndefined /\ v # JsString("")

\* getEmotionDisplayName: return emotionMap[emotionCode] || emotionCode
GetEmotionDisplayName(emotionCode) ==
    IF Truthy(EmotionLookup(emotionCode))
    THEN EmotionLookup(emotionCode)
    ELSE JsString(emotionCode)

\* The emotion codes a result can carry: the codes of the map, a code that
\* is not in it, the empty string and names of members of Object.prototype.
EmotionInputs == DOMAIN EmotionMap \cup {"XYZ", "", "constructor", "toString"}

\* The label the results section shows (AudioAnalysis.jsx line 347):
\* getEmotionDisplayName(analysisResult.emotion)
DisplayedLabel == GetEmotionDisplayName(analysisResult.emotion)

\* The audio page with uploaded files and their submissions, whose results
\* carry any of the emotion codes.
ResultNext ==
    \/ \E source \in {"recording", "upload"} : SelectSource(source)
    \/ SelectAudioFile
    \/ ClearFiles
    \/ ClickAnalyze
    \/ \E code \in EmotionInputs : AnalyzeSuccess(code)
    \/ AnalyzeFailure
    \/ ClearResult

ResultSpec == Init /\ [][ResultNext]_vars

\* C11: an ended event or a pause event of the <audio> element the page
\* shows leaves isPlaying false, after any sequence of user actions on the
\* audio page, tab switches included.
C11_PlayerEventClearsIsPlaying ==
    [][(PlayerEnded \/ PlayerPaused("current")) => ~isPlaying']_vars

\* C12: when getUserMedia rejects, the failed start() records the reason in
\* error and does nothing else: isRecording stays as it was (false stays
\* false), no recorder is created or started, no ticker is set, no stream is
\* opened, and the suspended call ends without another acquisition.
C12_FailedAcquisitionLeavesError ==
    [][AcquireFailure
        => /\ error' = MicError
           /\ ~isRecording => ~isRecording'
           /\ UNCHANGED <<isRecording, recorders, mediaRecorderRef, timers,
                          timerRef, visStreams, visPending>>
           /\ pendingStarts' = pendingStarts - 1]_vars

\* C12 witness: the only start() failed: the reason is recorded, nothing
\* records, no recorder and no ticker exist, nothing is pending.
C12_Witness ==
    /\ error = MicError
    /\ lastUserOp = "start"
    /\ ~isRecording
    /\ pendingStarts = 0
    /\ recorders = <<>>
    /\ timers = {}
    /\ visStreams = 0

\* C13: whenever the recording section of the audio page shows a session
\* with an error, a control that leads out of it is enabled: "Start
\* Recording" (retry) or "Reset".
C13_ErrorHasEnabledExit ==
    (RecordingTabShown(mounted, selectedSource) /\ error # NoError)
        => (StartButtonEnabled \/ ResetButtonShown)

\* C14: a submission that fails leaves the capture session as it was: the
\* sample (blob and URL), elapsed, isRecording and error are unchanged, and
\* isAnalyzing is false again, so that a sample that is present can be
\* submitted again.
C14_FailedSubmissionKeepsSession ==
    [][AnalyzeFailure
        => /\ UNCHANGED <<audioBlob, audioUrl, recordingTime, isRecording, error>>
           /\ ~isAnalyzing'
           /\ audioBlob.present => AnalyzeButtonEnabled']_vars

\* C14 witness: the submission of a recorded sample failed and the sample,
\* with its elapsed time, is still there.
C14_Witness ==
    /\ toast = "failed"
    /\ audioBlob.present
    /\ audioUrl # 0
    /\ recordingTime > 0
    /\ ~isAnalyzing
    /\ requests = <<>>

\* The sample URLs made so far: onstop makes the URL of its recorder in the
\* handler that stops the tracks.
CreatedUrls == {r \in RecIds : ~recorders[r].tracksLive}

\* C15: once the hook is torn down no ticker is set and no recorder is
\* recording; and once the stop events that were queued have fired, the
\* tracks of every recorder are stopped and every sample URL that was made,
\* before the teardown or after it, has been released.
C15_TeardownReleasesAll ==
    ~mounted
        => /\ timers = {}
           /\ \A r \in RecIds : ~Recording(r)
           /\ (\A r \in RecIds : ~recorders[r].stopQueued)
                => /\ \A r \in RecIds : ~recorders[r].tracksLive
                   /\ \A u \in CreatedUrls : CopiesIn(u, revoked) >= 1

\* The cleanup of the effect, applied to the intervals and the recorders it
\* left, leaves them as they are.
CleanupTwiceIsOnce ==
    LET tms == CleanupTimers(timers, timerRef)
        recs == CleanupRecorders(recorders, mediaRecorderRef)
    IN /\ CleanupTimers(tms, timerRef) = tms
       /\ CleanupRecorders(recs, mediaRecorderRef) = recs

\* Nothing for the cleanup to release: no interval in timerRef, no recorder
\* recording in mediaRecorderRef, no sample URL.
NothingHeld ==
    /\ timerRef \notin timers
    /\ mediaRecorderRef = 0 \/ ~Recording(mediaRecorderRef)
    /\ audioUrl = 0

\* C16: the cleanup is idempotent.  No sample URL is passed to
\* revokeObjectURL more than once, however often the cleanup of the effect
\* and resetRecording run; the cleanup applied a second time changes no
\* interval and no recorder; resetRecording on a session that was just reset
\* (or was never used) and the unmount cleanup with nothing held change
\* nothing of the session.
C16_CleanupIdempotent ==
    /\ [](\A u \in RecIds : CopiesIn(u, revoked) <= 1)
    /\ []CleanupTwiceIsOnce
    /\ [][(IdleState /\ ~isPlaying /\ ResetRecording)
            => UNCHANGED <<recVars, visVars, playVars>>]_vars
    /\ [][(NothingHeld /\ Unmount)
            => UNCHANGED <<timers, recorders, revoked>>]_vars

\* C16 witness: a sample was recorded and reset, which released its URL, and
\* the hook was then torn down, with nothing left to release: the URL was
\* released once.
C16_Witness ==
    /\ ~mounted
    /\ lastUserOp = "reset"
    /\ audioUrl = 0
    /\ 1 \in CreatedUrls
    /\ CopiesIn(1, revoked) = 1
    /\ timers = {}

\* The eight emotion codes the claim calls known.
KnownEmotionCodes == {"ANG", "CAL", "DIS", "FEA", "HAP", "NEU", "SAD", "SUR"}

\* C17: the label shown for a result is the display name of its emotion code
\* when the code is one of the eight known codes ("Happy" for "HAP"), and is
\* the code itself, unchanged, for every other code.
C17_DisplayNameOrCodeUnchanged ==
    analysisResult.present
        => LET code == analysisResult.emotion
           IN IF code \in KnownEmotionCodes
              THEN /\ DisplayedLabel.kind = "string"
                   /\ DisplayedLabel.value # code
                   /\ code = "HAP" => DisplayedLabel.value = "Happy"
              ELSE DisplayedLabel = JsString(code)

\* C18: once the recording has stopped (the user's stop or reset took effect,
\* the session is not recording and no acquisition is pending) no ticker is
\* scheduled, and no tick that fires while the session is not recording
\* changes elapsed.
C18_NoTickerAfterStop ==
    /\ []((/\ lastUserOp \in {"stop", "reset"}
           /\ ~isRecording
           /\ pendingStarts = 0)
            => timers = {})
    /\ [][(/\ ~isRecording
           /\ pendingStarts = 0
           /\ \E t \in timers : Tick(t))
            => recordingTime' = recordingTime]_vars

\* C19: an animation frame of the visualizer is scheduled only while
\* isRecording is true in a mounted visualizer that has its analyser; the
\* step that makes isRecording false or unmounts the visualizer leaves no
\* frame scheduled, and an analyser that arrives while isRecording is false
\* schedules none.
C19_FrameOnlyWhileRecording ==
    /\ [](frames # {}
            => /\ isRecording
               /\ RecordingTabShown(mounted, selectedSource)
               /\ audioContext
               /\ frames = {animationRef})
    /\ [][(~isRecording' \/ ~RecordingTabShown(mounted', selectedSource'))
            => frames' = {}]_vars
    /\ [][(VisAcquireSuccess /\ ~isRecording) => frames' = {}]_vars

\* C19 witness: the loop ran (a frame fired and requested the next one),
\* recording ended, and the analyser is held with no frame scheduled.
C19_Witness ==
    /\ audioContext
    /\ ~isRecording
    /\ animationRef = 2
    /\ frames = {}

\* C20: the sample holds exactly chunks of the recording whose finalization
\* made it, finalization leaves the buffer empty, and the buffer is empty
\* whenever the session is not recording and no finalization is outstanding.
C20_ChunksOfOwnRecording ==
    /\ [](audioBlob.present
            => \A i \in 1..Len(audioBlob.data) : audioBlob.data[i] = audioUrl)
    /\ [][\A r \in RecIds : OnStop(r) => chunksRef' = <<>>]_vars
    /\ []((~isRecording /\ \A r \in RecIds : ~recorders[r].stopQueued)
            => chunksRef = <<>>)

\* C21: the fraction the progress bar displays is within [0, 1] for every
\* reachable elapsed time, and it is 1 exactly when elapsed equals the
\* deadline.
C21_ProgressWithinUnit ==
    /\ DisplayedFraction.den > 0
    /\ 0 <= DisplayedFraction.num
    /\ DisplayedFraction.num <= DisplayedFraction.den
    /\ (DisplayedFraction.num = DisplayedFraction.den) <=> (recordingTime = Deadline)

\* C21 witness: elapsed reached the deadline under the visualizer of the
\* recording tab, whose bar is full.
C21_Witness ==
    /\ RecordingTabShown(mounted, selectedSource)
    /\ recordingTime = Deadline
    /\ DisplayedFraction.num = DisplayedFraction.den

\* C22: playAudio changes neither isPlaying nor the player when there is no
\* sample; when there is one it turns a paused player to playing and a
\* playing player to paused, and leaves isPlaying equal to whether the
\* player plays.
C22_ToggleAlternatesPlayer ==
    [][/\ (PlayAudio /\ audioUrl = 0) => UNCHANGED <<isPlaying, playVars>>
       /\ (PlayAudio /\ audioUrl # 0)
            => /\ elPlaying' = ~elPlaying
               /\ isPlaying' = elPlaying']_vars

\* C23: an analyze invoked while a recorded sample or an uploaded file
\* exists makes exactly one submission, of the sample under the name
\* recording.webm or of the first uploaded file under its own name,
\* whichever tab is selected.
C23_AnalyzeSubmitsOnce ==
    [][(HandleAnalyze /\ (audioBlob.present \/ Len(files) > 0))
        => /\ Len(requests') = Len(requests) + 1
           /\ LET sent == requests'[Len(requests')]
              IN \/ /\ audioBlob.present
                    /\ sent = [name |-> RecordingFilename, source |-> "recording"]
                 \/ /\ Len(files) > 0
                    /\ sent = [name |-> files[1].name, source |-> "upload"]]_vars

\* C24: a recording that starts while the sample of a previous recording
\* exists is left running by the release of that sample: after the step in
\* which its acquisition completes its ticker is scheduled and its recorder
\* is recording.
C24_RestartRunsLikeFirst ==
    [][(mounted /\ audioUrl # 0 /\ AcquireSuccess)
        => /\ isRecording'
           /\ timerRef' \in timers'
           /\ recorders'[mediaRecorderRef'].state = "recording"]_vars

\* C25: isPlaying is true only while a sample exists, and a step that starts
\* a recording, resets, or finalizes a sample leaves isPlaying true only for
\* the sample that was there before the step and still is.
C25_PlayingOnlyWithSample ==
    /\ [](isPlaying => audioUrl # 0)
    /\ [][(AcquireSuccess \/ ResetRecording \/ \E r \in RecIds : OnStop(r))
            => (isPlaying' => (audioUrl # 0 /\ audioUrl' = audioUrl))]_vars

\* C26: with allowMultiple false the file list never holds more than one
\* file.
C26_SingleModeHoldsOneFile == ~allowMultiple => Len(files) <= 1

\* C27: on the multi-modal page isAnalyzing is true whenever an audio
\* analysis, an image analysis or a comparison is in flight.
C27_FlagCoversInFlight == InFlightCount > 0 => mmIsAnalyzing

\* C28: on the image page every entry analysisResults[i] belongs to an
\* image that is listed at index i and is the result of analysing that
\* image.
C28_ResultsMatchImages ==
    \A i \in DOMAIN analysisResults :
        /\ i \in 1..Len(files)
        /\ analysisResults[i] = files[i].name

\* C29: a camera stream has live tracks only while CameraCapture is mounted
\* and capturing and holds that stream; once capturing is off or the
\* component has unmounted and no acquisition is pending, no camera stream
\* is live.
C29_NoCameraStreamWithoutView ==
    /\ camLive # {} => (CameraMounted /\ isCapturing /\ camLive = {camStream})
    /\ (camPending = 0 /\ camStale = 0 /\ (~CameraMounted \/ ~isCapturing))
            => camLive = {}

\* C30: on the audio page every analyze ends with isAnalyzing false: an
\* analyze that finds no source for the selected tab leaves it false at
\* once, isAnalyzing is false whenever no submission is in flight, and a
\* submission in flight leads to isAnalyzing false when it resolves or
\* fails.
C30_AnalyzeEndsNotAnalyzing ==
    /\ [](requests = <<>> => ~isAnalyzing)
    /\ [][(HandleAnalyze /\ requests' = requests) => ~isAnalyzing']_vars
    /\ [][(AnalyzeSuccess("HAP") \/ AnalyzeFailure) => ~isAnalyzing']_vars
    /\ (isAnalyzing ~> ~isAnalyzing)

\* C30 witness: a submission was made and resolved, and the analyze button
\* is enabled again with the result shown.
C30_Witness ==
    /\ toast = "complete"
    /\ analysisResult.present
    /\ requests = <<>>
    /\ ~isAnalyzing
    /\ AnalyzeButtonEnabled

====
